---- MODULE Spec2Model ----
(***************************************************************************)
(* prmaker: the pull-request workflow of src/src/main.rs as a state        *)
(* machine.  One run of `main` is one behaviour: credentials, the draft    *)
(* built from git output and operator prompts, the confirmation gate, the  *)
(* four forge calls and the interactive reviewer selection.                *)
(*                                                                         *)
(* Text is modelled as a sequence of one-character strings, so that        *)
(* trimming, integer parsing and the regular expressions are computed the  *)
(* way the code computes them.  A line read from stdin keeps its newline   *)
(* (read_line); the empty sequence is what read_line yields at end of      *)
(* input.  The operator is taken to type valid UTF-8 and the forge to fill *)
(* html_url (with a host) in every pull request it returns.                *)
(***************************************************************************)
EXTENDS Integers, Sequences, FiniteSets, TLC

(***************************************************************************)
(* Bounds of the model.                                                    *)
(***************************************************************************)
\* organization members returned by the forge: 0..MaxMembers
MaxMembers == 3
\* lines the gate may turn down before the operator answers "y" or "n"
MaxProceedReads == 2
\* non-empty lines the operator may type at the reviewer prompt
MaxReviewerReads == 3
\* forge calls a holder of a PR record makes through its methods
MaxClientCalls == 3

(***************************************************************************)
(* Characters and text.                                                    *)
(***************************************************************************)
Digits == <<"0", "1", "2", "3", "4", "5", "6", "7", "8", "9">>

DigitChars == {Digits[i] : i \in 1..10}

LetterChars ==
    {"a", "b", "c", "d", "e", "f", "g", "h", "i", "j", "k", "l", "m",
     "n", "o", "p", "q", "r", "s", "t", "u", "v", "w", "x", "y", "z",
     "A", "B", "C", "D", "E", "F", "G", "H", "I", "J", "K", "L", "M",
     "N", "O", "P", "Q", "R", "S", "T", "U", "V", "W", "X", "Y", "Z"}

\* \w of the regex crate, on the characters used here
WordChars == LetterChars \cup DigitChars \cup {"_"}

\* [\w-]
WordDashChars == WordChars \cup {"-"}

\* char::is_digit(10)
IsDigit(c) == c \in DigitChars

\* char::is_whitespace, on the characters used here
IsWhitespace(c) == c \in {" ", "\n", "\t", "\r"}

DigitValue(c) == (CHOOSE i \in 1..10 : Digits[i] = c) - 1

\* str::trim: drop the leading and the trailing run of whitespace
Trim(s) ==
    LET keep == {i \in 1..Len(s) : ~IsWhitespace(s[i])}
    IN  IF keep = {} THEN <<>>
        ELSE LET lo == CHOOSE i \in keep : \A j \in keep : i <= j
                 hi == CHOOSE i \in keep : \A j \in keep : j <= i
             IN  SubSeq(s, lo, hi)

\* the decimal digits of a natural number (usize::to_string)
RECURSIVE ToDigits(_)
ToDigits(n) ==
    IF n < 10 THEN <<Digits[n + 1]>>
    ELSE Append(ToDigits(n \div 10), Digits[(n % 10) + 1])

\* digits without their leading zeros; <<"0">> for zero
RECURSIVE StripZeros(_)
StripZeros(ds) ==
    IF Len(ds) > 1 /\ Head(ds) = "0" THEN StripZeros(Tail(ds)) ELSE ds

\* usize::MAX on a 64-bit target, 18446744073709551615, as digits
UsizeMaxDigits ==
    <<"1", "8", "4", "4", "6", "7", "4", "4", "0", "7",
      "3", "7", "0", "9", "5", "5", "1", "6", "1", "5">>

\* ds > es for two digit strings of the same length
DigitsGreater(ds, es) ==
    \E i \in 1..Len(ds) :
        /\ DigitValue(ds[i]) > DigitValue(es[i])
        /\ \A j \in 1..(i - 1) : ds[j] = es[j]

\* the number overflows usize (checked_mul / checked_add fail)
Overflows(ds) ==
    LET c == StripZeros(ds)
    IN  \/ Len(c) > Len(UsizeMaxDigits)
        \/ Len(c) = Len(UsizeMaxDigits) /\ DigitsGreater(c, UsizeMaxDigits)

\* str::parse::<usize>: an optional "+", then one or more decimal digits, no
\* overflow.  The value is kept as its canonical digits, which any width fits.
ParseUsize(s) ==
    LET ds == IF Len(s) > 0 /\ Head(s) = "+" THEN Tail(s) ELSE s
    IN  IF /\ Len(ds) > 0
           /\ \A i \in 1..Len(ds) : IsDigit(ds[i])
           /\ ~Overflows(ds)
        THEN [ok |-> TRUE, digits |-> StripZeros(ds)]
        ELSE [ok |-> FALSE, digits |-> <<>>]

\* Option<String>
None == [some |-> FALSE, val |-> <<>>]

Some(s) == [some |-> TRUE, val |-> s]

\* the last index of the run of characters of the set cls starting at i;
\* i - 1 when s[i] is not in cls
RECURSIVE RunEnd(_, _, _)
RunEnd(s, i, cls) ==
    IF i <= Len(s) /\ s[i] \in cls THEN RunEnd(s, i + 1, cls) ELSE i - 1

Min(S) == CHOOSE x \in S : \A y \in S : x <= y

Max(S) == CHOOSE x \in S : \A y \in S : y <= x

\* BASE_REGEX  :([\w-]+)/   searched anywhere, leftmost match
BaseMatches(s) ==
    {i \in 1..Len(s) :
        /\ s[i] = ":"
        /\ LET e == RunEnd(s, i + 1, WordDashChars)
           IN  e >= i + 1 /\ e + 1 <= Len(s) /\ s[e + 1] = "/"}

\* get_base: the capture, or None where the code panics
get_base(remote_url) ==
    IF BaseMatches(remote_url) = {} THEN None
    ELSE LET i == Min(BaseMatches(remote_url))
         IN  Some(SubSeq(remote_url, i + 1, RunEnd(remote_url, i + 1, WordDashChars)))

\* REPO_REGEX  /([\w-]+).git   searched anywhere; "." is any character but a
\* newline, the group is greedy and gives characters back until the rest fits
RepoLens(s, i) ==
    {m \in 1..(RunEnd(s, i + 1, WordDashChars) - i) :
        /\ i + m + 4 <= Len(s)
        /\ s[i + m + 1] # "\n"
        /\ SubSeq(s, i + m + 2, i + m + 4) = <<"g", "i", "t">>}

RepoMatches(s) == {i \in 1..Len(s) : s[i] = "/" /\ RepoLens(s, i) # {}}

\* get_repo: the capture, or None where the code panics
get_repo(remote_url) ==
    IF RepoMatches(remote_url) = {} THEN None
    ELSE LET i == Min(RepoMatches(remote_url))
         IN  Some(SubSeq(remote_url, i + 1, i + Max(RepoLens(remote_url, i))))

\* the whole match taken for the issue, branch type included
get_yt_issue_from_branch_name_WholeMatch(branch) ==
    LET e1 == RunEnd(branch, 1, WordChars)
        e2 == RunEnd(branch, e1 + 2, WordChars)
        e3 == RunEnd(branch, e2 + 2, DigitChars)
    IN  IF /\ e1 >= 1
           /\ e1 + 1 <= Len(branch) /\ branch[e1 + 1] = "/"
           /\ e2 >= e1 + 2
           /\ e2 + 1 <= Len(branch) /\ branch[e2 + 1] = "-"
           /\ e3 >= e2 + 2
        THEN Some(SubSeq(branch, 1, e3))
        ELSE None

\* YT_ISSUE_REGEX  ^\w+/(\w+-\d+)   anchored at the start of the branch name
get_yt_issue_from_branch_name(branch) ==
    LET e1 == RunEnd(branch, 1, WordChars)
        e2 == RunEnd(branch, e1 + 2, WordChars)
        e3 == RunEnd(branch, e2 + 2, DigitChars)
    IN  IF /\ e1 >= 1
           /\ e1 + 1 <= Len(branch) /\ branch[e1 + 1] = "/"
           /\ e2 >= e1 + 2
           /\ e2 + 1 <= Len(branch) /\ branch[e2 + 1] = "-"
           /\ e3 >= e2 + 2
        THEN Some(SubSeq(branch, e1 + 2, e3))
        ELSE None

\* build_full_pr_body: the fixed template around the body and the issue
build_full_pr_body(title, yt_issue) ==
    <<"### What does this PR do?\n\n">> \o title
        \o <<"\n\n<!--\nPlease include a summary of the change and/or which issue is fixed. Please also include relevant motivation and context. List any dependencies that are required for this change, also provide (if appropriate) any evidence - screenshots, gifs, logs, etc.\n\nOh, remember to follow conventional commits (https://conventionalcommits.org) on pull request title ;)\n-->\n\n---\n\n**Related issue:** ">>
        \o yt_issue \o <<"\n">>

\* get_pr_link: scheme://host/path of html_url, query and fragment dropped
get_pr_link(pr) ==
    pr.html_url.scheme \o <<"://">> \o pr.html_url.host \o pr.html_url.path

(***************************************************************************)
(* What the environment can hand to the program.                           *)
(***************************************************************************)
\* env::var(GITHUB_USER) and env::var(GITHUB_TOKEN): unset, or a value
UserVars == {None, Some(<<"j", "o">>)}

TokenVars == {None, Some(<<"t", "k">>)}

\* stdout of `git config --get remote.origin.url`
RemoteOutputs ==
    {<<"g", "i", "t", "@", "h", ":", "o", "r", "g", "/", "r", "e", "p", "o", ".", "g", "i", "t", "\n">>,
     <<"h", "t", "t", "p", "s", ":", "/", "/", "h", "/", "o", "r", "g", "/", "r", "e", "p", "o", ".", "g", "i", "t", "\n">>,
     <<"g", "i", "t", "@", "h", ":", "o", "r", "g", "/", "r", "e", "p", "o", "\n">>,
     <<"h", "t", "t", "p", "s", ":", "/", "/", "h", "/", "o", "r", "g", "/", "r", "e", "p", "o", "\n">>,
     <<>>}

\* stdout of `git branch --show-current`
BranchOutputs ==
    {<<"f", "e", "a", "t", "/", "P", "R", "O", "J", "-", "4", "2", "\n">>,
     <<"m", "a", "i", "n", "\n">>}

\* stdout of `git log -1 --pretty=format:%s`
CommitOutputs == {<<"f", "i", "x">>}

\* lines typed at the title, issue and body prompts
TitleLines == {<<"\n">>, <<" ", "T", " ", "\n">>}

IssueLines == {<<"\n">>, <<" ", "X", "-", "1", "\n">>}

BodyLines == {<<"\n">>, <<"B", "\n">>}

\* lines typed at "Proceed? (y/n): "
ProceedLines ==
    {<<"y", "\n">>,
     <<"n", "\n">>,
     <<"n", " ", "\n">>,
     <<"Y", "\n">>,
     <<"N", "\n">>,
     <<"y", "e", "s", "\n">>,
     <<"\n">>,
     <<>>}

\* lines typed at "Add a reviewer (empty to proceed): "
ReviewerLines ==
    {<<"\n">>,
     <<>>,
     <<"0", "\n">>,
     <<"+", "1", "\n">>,
     <<" ", "2", " ", "\n">>,
     <<"3", "\n">>,
     <<"-", "1", "\n">>,
     <<"x", "\n">>,
     <<"1", "8", "4", "4", "6", "7", "4", "4", "0", "7", "3", "7", "0", "9",
       "5", "5", "1", "6", "1", "6", "\n">>}

\* the login of the i-th member the forge lists (i from 0)
Login(i) == <<"u">> \o ToDigits(i)

\* Page<User>: the first n members of the organization, in the forge's order
Page(n) == [i \in 1..n |-> Login(i - 1)]

\* the pull request the forge returns for number n: its html_url carries a
\* query that the printed link must not
PullRequest(owner, name, n) ==
    [number |-> n,
     html_url |-> [scheme |-> <<"https">>,
                   host |-> <<"h">>,
                   path |-> <<"/">> \o owner \o <<"/">> \o name \o <<"/pull/">> \o ToDigits(n),
                   query |-> <<"?tab=1">>]]

NoPullRequest ==
    [number |-> 0,
     html_url |-> [scheme |-> <<>>, host |-> <<>>, path |-> <<>>, query |-> <<>>]]

\* the numbers the forge may give the new pull request
PrNumbers == {1, 2}

\* .per_page(100) of the member listing
PerPage == 100

\* the base branch every pull request targets
TargetBranch == <<"n", "e", "x", "t">>

(***************************************************************************)
(* State.                                                                  *)
(***************************************************************************)
VARIABLES
    pc,                 \* where main is
    exit_code,          \* -1 while running, then the process's exit code
    user, token,        \* the credentials
    remote_url, base, repo, current_branch,
    pr_title, yt_issue, pr_body, full_pr_body,     \* the draft
    proceed_opt,        \* the last line read by the confirmation gate
    pr_resp,            \* result of the create call
    assign_resp,        \* result of the add-assignee call
    collaborators_resp, \* result of the member listing
    assigness_resp,     \* result of the request-reviewers call
    reviewers,          \* the candidates of get_selected_reviewers
    usernames,          \* the selected usernames main collects
    calls,              \* the forge calls issued so far, in order
    last_printed,       \* the last message written to stdout
    reads,              \* lines read so far, per prompt
    entered,            \* per candidate, how often its ordinal was typed
    before,             \* per candidate, its flag before its ordinal was last typed
    PR                  \* the PR record of pr.rs

creds == <<user, token>>

draft ==
    <<remote_url, base, repo, current_branch, pr_title, yt_issue, pr_body,
      full_pr_body>>

forge == <<pr_resp, assign_resp, collaborators_resp, assigness_resp, calls>>

selection == <<reviewers, usernames, entered, before>>

vars ==
    <<pc, exit_code, creds, draft, proceed_opt, forge, selection,
      last_printed, reads, PR>>

Prompts == {"title", "yt_issue", "body", "proceed", "reviewer"}

\* a message on stdout: what it says and the text it carries
Msg(tag, arg) == <<tag, arg>>

\* println!, for a run of messages: the last one is what stdout ends with
println(msgs) == last_printed' = msgs[Len(msgs)]

\* io::stdin().read_line at a prompt
read_line(prompt) == reads' = [reads EXCEPT ![prompt] = @ + 1]

\* exit_with_code
exit_with_code(code) == pc' = "exited" /\ exit_code' = code

\* panic!, unwrap and expect on a failure: the process dies with status 101
panic == pc' = "panicked" /\ exit_code' = 101

\* the pull-request part of a create call; NoCreate for the other calls
NoCreate == [title |-> <<>>, head |-> <<>>, target |-> <<>>, body |-> <<>>]

\* Option<u64>
NoNumber == [some |-> FALSE, val |-> 0]

SomeNumber(n) == [some |-> TRUE, val |-> n]

\* struct PR before PR::build has made one
NoPR ==
    [branch |-> <<>>, title |-> <<>>, yt_issue |-> <<>>, body |-> <<>>,
     full_body |-> <<>>, link |-> None, number |-> NoNumber,
     base |-> <<>>, repo |-> <<>>]

\* a forge call on the wire
Call(op, owner, name, number, names, per_page, create) ==
    [op |-> op, owner |-> owner, repo |-> name, number |-> number,
     users |-> names, per_page |-> per_page, create |-> create]

Init ==
    /\ pc = "user"
    /\ exit_code = -1
    /\ user = <<>> /\ token = <<>>
    /\ remote_url = <<>> /\ base = <<>> /\ repo = <<>> /\ current_branch = <<>>
    /\ pr_title = <<>> /\ yt_issue = <<>> /\ pr_body = <<>> /\ full_pr_body = <<>>
    /\ proceed_opt = <<>>
    /\ pr_resp = [kind |-> "none", pr |-> NoPullRequest]
    /\ assign_resp = "none"
    /\ collaborators_resp = [kind |-> "none", items |-> <<>>]
    /\ assigness_resp = "none"
    /\ reviewers = <<>> /\ usernames = <<>>
    /\ calls = <<>>
    /\ last_printed = Msg("", <<>>)
    /\ reads = [p \in Prompts |-> 0]
    /\ entered = <<>> /\ before = <<>>
    /\ PR = NoPR

(***************************************************************************)
(* Building the draft: main, lines 23-71.                                  *)
(***************************************************************************)
GetUser ==
    /\ pc = "user"
    /\ \E v \in UserVars :
        IF v.some
        THEN /\ user' = v.val
             /\ pc' = "token"
             /\ UNCHANGED <<exit_code, last_printed>>
        ELSE /\ println(<<Msg("no_user", <<>>)>>)
             /\ exit_with_code(1)
             /\ UNCHANGED user
    /\ UNCHANGED <<PR, token, draft, proceed_opt, forge, selection, reads>>

GetToken_Unchecked ==
    /\ pc = "token"
    /\ \E v \in TokenVars :
        /\ token' = v.val
        /\ pc' = "remote_url"
        /\ UNCHANGED <<exit_code, last_printed>>
    /\ UNCHANGED <<PR, user, draft, proceed_opt, forge, selection, reads>>

GetToken ==
    /\ pc = "token"
    /\ \E v \in TokenVars :
        IF v.some
        THEN /\ token' = v.val
             /\ pc' = "remote_url"
             /\ UNCHANGED <<exit_code, last_printed>>
        ELSE /\ println(<<Msg("no_token", <<>>), Msg("token_hint", <<>>)>>)
             /\ exit_with_code(1)
             /\ UNCHANGED token
    /\ UNCHANGED <<PR, user, draft, proceed_opt, forge, selection, reads>>

GetRemoteUrl ==
    /\ pc = "remote_url"
    /\ \E spawned \in BOOLEAN, out \in RemoteOutputs :
        IF spawned
        THEN /\ remote_url' = Trim(out)
             /\ pc' = "base"
             /\ UNCHANGED exit_code
        ELSE /\ panic
             /\ UNCHANGED remote_url
    /\ UNCHANGED <<PR, creds, base, repo, current_branch, pr_title, yt_issue,
                   pr_body, full_pr_body, proceed_opt, forge, selection,
                   last_printed, reads>>

GetBase ==
    /\ pc = "base"
    /\ IF get_base(remote_url).some
       THEN /\ base' = get_base(remote_url).val
            /\ pc' = "repo"
            /\ UNCHANGED exit_code
       ELSE /\ panic
            /\ UNCHANGED base
    /\ UNCHANGED <<PR, creds, remote_url, repo, current_branch, pr_title, yt_issue,
                   pr_body, full_pr_body, proceed_opt, forge, selection,
                   last_printed, reads>>

GetRepo ==
    /\ pc = "repo"
    /\ IF get_repo(remote_url).some
       THEN /\ repo' = get_repo(remote_url).val
            /\ pc' = "current_branch"
            /\ UNCHANGED exit_code
       ELSE /\ panic
            /\ UNCHANGED repo
    /\ UNCHANGED <<PR, creds, remote_url, base, current_branch, pr_title, yt_issue,
                   pr_body, full_pr_body, proceed_opt, forge, selection,
                   last_printed, reads>>

GetCurrentBranch ==
    /\ pc = "current_branch"
    /\ \E spawned \in BOOLEAN, out \in BranchOutputs :
        IF spawned
        THEN /\ current_branch' = Trim(out)
             /\ pc' = "pr_title"
             /\ UNCHANGED exit_code
        ELSE /\ panic
             /\ UNCHANGED current_branch
    /\ UNCHANGED <<PR, creds, remote_url, base, repo, pr_title, yt_issue, pr_body,
                   full_pr_body, proceed_opt, forge, selection, last_printed, reads>>

\* get_pr_title, with get_last_commit
GetPrTitle ==
    /\ pc = "pr_title"
    /\ \E spawned \in BOOLEAN, out \in CommitOutputs, line \in TitleLines :
        IF spawned
        THEN LET last_commit == Trim(out)
             IN  /\ println(<<Msg("title_default", last_commit), Msg("title_prompt", <<>>)>>)
                 /\ read_line("title")
                 /\ pr_title' = IF Trim(line) = <<>> THEN last_commit ELSE Trim(line)
                 /\ pc' = "yt_issue"
                 /\ UNCHANGED exit_code
        ELSE /\ panic
             /\ UNCHANGED <<pr_title, last_printed, reads>>
    /\ UNCHANGED <<PR, creds, remote_url, base, repo, current_branch, yt_issue,
                   pr_body, full_pr_body, proceed_opt, forge, selection>>

\* the issue from the branch name, or request_yt_issue
GetYtIssue ==
    /\ pc = "yt_issue"
    /\ LET found == get_yt_issue_from_branch_name(current_branch)
       IN  IF found.some
           THEN /\ yt_issue' = found.val
                /\ UNCHANGED <<last_printed, reads>>
           ELSE \E line \in IssueLines :
                /\ println(<<Msg("yt_missing", <<>>), Msg("yt_prompt", <<>>)>>)
                /\ read_line("yt_issue")
                /\ yt_issue' = Trim(line)
    /\ pc' = "pr_body"
    /\ UNCHANGED <<PR, exit_code, creds, remote_url, base, repo, current_branch,
                   pr_title, pr_body, full_pr_body, proceed_opt, forge,
                   selection>>

\* get_pr_body, then build_full_pr_body
GetPrBody ==
    /\ pc = "pr_body"
    /\ \E line \in BodyLines :
        LET default_body == <<"T", "i", "t", "l", "e">>
            body == IF Trim(line) = <<>> THEN default_body ELSE Trim(line)
        IN  /\ println(<<Msg("body_default", default_body), Msg("body_prompt", <<>>)>>)
            /\ read_line("body")
            /\ pr_body' = body
            /\ full_pr_body' = build_full_pr_body(body, yt_issue)
    /\ pc' = "review"
    /\ UNCHANGED <<PR, exit_code, creds, remote_url, base, repo, current_branch,
                   pr_title, yt_issue, proceed_opt, forge, selection>>

\* "** Review PR **" and the proceed prompt
ReviewPR ==
    /\ pc = "review"
    /\ println(<<Msg("review", <<>>),
                 Msg("Title", pr_title),
                 Msg("Body", pr_body),
                 Msg("Youtrack issue", yt_issue),
                 Msg("Remote branch", current_branch),
                 Msg("Remote", base \o <<"/">> \o repo),
                 Msg("proceed_prompt", <<>>)>>)
    /\ pc' = "proceed"
    /\ UNCHANGED <<PR, exit_code, creds, draft, proceed_opt, forge, selection, reads>>

(***************************************************************************)
(* The confirmation gate: main, lines 73-95.                               *)
(***************************************************************************)
\* a gate that lets through everything but "n"
ProceedArm_AnyButNo(line) ==
    IF Trim(line) = <<"n">> THEN "exit" ELSE "break"

\* a gate on which "n" only asks again
ProceedArm_NoAbort(line) ==
    IF Trim(line) = <<"y">> THEN "break" ELSE "continue"

\* a gate that takes "Y" for "y" and "N" for "n"
ProceedArm_CaseInsensitive(line) ==
    IF Trim(line) \in {<<"y">>, <<"Y">>} THEN "break"
    ELSE IF Trim(line) \in {<<"n">>, <<"N">>} THEN "exit"
    ELSE "continue"

\* the arm of `match proceed_opt.trim()` a line takes
ProceedArm(line) ==
    IF Trim(line) = <<"y">> THEN "break"
    ELSE IF Trim(line) = <<"n">> THEN "exit"
    ELSE "continue"

Proceed ==
    /\ pc = "proceed"
    /\ \E line \in ProceedLines :
        /\ read_line("proceed")
        /\ proceed_opt' = line
        /\ CASE ProceedArm(line) = "break" ->
                 /\ println(<<Msg("creating", <<>>)>>)
                 /\ pc' = "create"
                 /\ UNCHANGED exit_code
             [] ProceedArm(line) = "exit" ->
                 /\ println(<<Msg("closing", <<>>)>>)
                 /\ exit_with_code(0)
             [] OTHER ->
                 /\ reads["proceed"] < MaxProceedReads
                 /\ println(<<Msg("proceed_hint", <<>>)>>)
                 /\ UNCHANGED <<pc, exit_code>>
    /\ UNCHANGED <<PR, creds, draft, forge, selection>>

(***************************************************************************)
(* The forge calls and the reviewer selection: main, lines 97-172.         *)
(***************************************************************************)
\* a create whose forge-reported error is only reported
AfterCreate_ErrorIgnored(kind) ==
    CASE kind = "Ok" -> [pc |-> "assign", exit_code |-> -1]
      [] kind = "GitHub" -> [pc |-> "assign", exit_code |-> -1]
      [] OTHER -> [pc |-> "panicked", exit_code |-> 101]

\* a create whose unexpected error is passed over
AfterCreate_OtherIgnored(kind) ==
    CASE kind = "Ok" -> [pc |-> "assign", exit_code |-> -1]
      [] kind = "GitHub" -> [pc |-> "exited", exit_code |-> 1]
      [] OTHER -> [pc |-> "assign", exit_code |-> -1]

\* `match pr_resp`: where main goes on each result of the create call
AfterCreate(kind) ==
    CASE kind = "Ok" -> [pc |-> "assign", exit_code |-> -1]
      [] kind = "GitHub" -> [pc |-> "exited", exit_code |-> 1]
      [] OTHER -> [pc |-> "panicked", exit_code |-> 101]

\* pulls(base, repo).create(pr_title, current_branch, "next").body(..).send()
CreatePR ==
    /\ pc = "create"
    /\ calls' = Append(calls,
                       Call("create", base, repo, 0, <<>>, 0,
                            [title |-> pr_title, head |-> current_branch,
                             target |-> TargetBranch, body |-> full_pr_body]))
    /\ \E kind \in {"Ok", "GitHub", "Other"}, n \in PrNumbers :
        LET pr == IF kind = "Ok" THEN PullRequest(base, repo, n) ELSE NoPullRequest
        IN  /\ kind # "Ok" => n = 1
            /\ pr_resp' = [kind |-> kind, pr |-> pr]
            /\ pc' = AfterCreate(kind).pc
            /\ exit_code' = AfterCreate(kind).exit_code
            /\ CASE kind = "Ok" -> println(<<Msg("created", get_pr_link(pr))>>)
                 [] kind = "GitHub" -> println(<<Msg("create_error", <<"source">>)>>)
                 [] OTHER -> UNCHANGED last_printed
    /\ UNCHANGED <<PR, creds, draft, proceed_opt, assign_resp, collaborators_resp,
                   assigness_resp, selection, reads>>

\* a self-assignment whose failure ends the run
AfterAssign_Fatal(resp) ==
    IF resp = "Ok" THEN [pc |-> "list", exit_code |-> -1]
    ELSE [pc |-> "exited", exit_code |-> 1]

\* a failed self-assignment that skips the member listing
AfterAssign_SkipOnError(resp) ==
    IF resp = "Ok" THEN [pc |-> "list", exit_code |-> -1]
    ELSE [pc |-> "link", exit_code |-> -1]

\* `match assign_resp`: both arms only report, and main goes on
AfterAssign(resp) == [pc |-> "list", exit_code |-> -1]

\* issues(base, repo).add_assignees(pr.number, [user])
AssignSelf ==
    /\ pc = "assign"
    /\ calls' = Append(calls,
                       Call("add_assignees", base, repo, pr_resp.pr.number,
                            <<user>>, 0, NoCreate))
    /\ \E resp \in {"Ok", "Err"} :
        /\ assign_resp' = resp
        /\ println(<<Msg("assigning", <<>>),
                     Msg(IF resp = "Ok" THEN "assigned" ELSE "assign_error", <<>>)>>)
        /\ pc' = AfterAssign(resp).pc
        /\ exit_code' = AfterAssign(resp).exit_code
    /\ UNCHANGED <<PR, creds, draft, proceed_opt, pr_resp, collaborators_resp,
                   assigness_resp, selection, reads>>

\* candidates numbered from 1
get_reviewers_OneBased(collaborators) ==
    [i \in 1..Len(collaborators) |->
        [username |-> collaborators[i], index |-> i, selected |-> FALSE]]

\* get_reviewers: one candidate per member, numbered from 0, unselected
get_reviewers(collaborators) ==
    [i \in 1..Len(collaborators) |->
        [username |-> collaborators[i], index |-> i - 1, selected |-> FALSE]]

\* a listing whose failure still opens the selection, on no candidates
AfterList_AlwaysSelect(kind) == "select"

\* `match collaborators_resp`: the selection runs on Ok only
AfterList(kind) == IF kind = "Ok" THEN "select" ELSE "link"

\* orgs(base).list_members().per_page(100).send(); on success the candidates
\* of get_selected_reviewers are built
ListMembers ==
    /\ pc = "list"
    /\ calls' = Append(calls,
                       Call("list_members", base, <<>>, 0, <<>>, PerPage, NoCreate))
    /\ \/ \E n \in 0..MaxMembers :
            /\ collaborators_resp' = [kind |-> "Ok", items |-> Page(n)]
            /\ reviewers' = get_reviewers(Page(n))
            /\ entered' = [i \in 1..n |-> 0]
            /\ before' = [i \in 1..n |-> FALSE]
            /\ pc' = AfterList("Ok")
            /\ UNCHANGED last_printed
       \/ /\ collaborators_resp' = [kind |-> "Err", items |-> <<>>]
          /\ println(<<Msg("collaborators_error", <<>>)>>)
          /\ pc' = AfterList("Err")
          /\ UNCHANGED <<reviewers, entered, before>>
    /\ UNCHANGED <<PR, exit_code, creds, draft, proceed_opt, pr_resp, assign_resp,
                   assigness_resp, usernames, reads>>

\* a search that takes the ordinals to start at 1
Found_OneBased(revs, index) ==
    {i \in 1..Len(revs) : ToDigits(revs[i].index + 1) = index.digits}

\* reviewers.iter_mut().find(|r| r.index == index): the positions that match
Found(revs, index) ==
    {i \in 1..Len(revs) : ToDigits(revs[i].index) = index.digits}

\* an entry that selects and never deselects
Toggle_SelectOnly(revs, i) == [revs EXCEPT ![i].selected = TRUE]

\* reviewer.selected = !reviewer.selected, on the first match
Toggle(revs, i) == [revs EXCEPT ![i].selected = ~@]

\* the two reports exchanged
Select_ReportsSwapped(revs, line) ==
    LET index == ParseUsize(Trim(line))
    IN  IF ~index.ok
        THEN [reviewers |-> revs, report |-> <<Msg("not_found", <<>>)>>]
        ELSE IF Found(revs, index) = {}
        THEN [reviewers |-> revs, report |-> <<Msg("invalid_option", <<>>)>>]
        ELSE [reviewers |-> Toggle(revs, Min(Found(revs, index))), report |-> <<>>]

\* the list after one non-empty line, and what the iteration reports
Select(revs, line) ==
    LET index == ParseUsize(Trim(line))
    IN  IF ~index.ok
        THEN [reviewers |-> revs, report |-> <<Msg("invalid_option", <<>>)>>]
        ELSE IF Found(revs, index) = {}
        THEN [reviewers |-> revs, report |-> <<Msg("not_found", <<>>)>>]
        ELSE [reviewers |-> Toggle(revs, Min(Found(revs, index))), report |-> <<>>]

\* reviewers.clone().into_iter().filter(|r| r.selected).collect()
Selected(revs) == SelectSeq(revs, LAMBDA r : r.selected)

\* reviewers.iter().map(|r| r.username.clone()).collect()
Usernames(revs) == [i \in 1..Len(revs) |-> revs[i].username]

\* the candidates a typed line names: those whose ordinal is the number typed
Typed(revs, line) ==
    {i \in 1..Len(revs) :
        /\ ParseUsize(Trim(line)).ok
        /\ ParseUsize(Trim(line)).digits = ToDigits(i - 1)}

\* a dispatch that does not look whether anybody was selected
AfterSelection_AlwaysRequest(chosen) == "request"

\* `if reviewers.is_empty()`, on what get_selected_reviewers returned
AfterSelection(chosen) == IF chosen = <<>> THEN "link" ELSE "request"

\* one iteration of the loop of get_selected_reviewers on the line `opt`; on
\* the empty line the function returns and main collects the usernames
Iteration(opt) ==
    LET chosen == Selected(reviewers)
        step == Select(reviewers, opt)
        typed == Typed(reviewers, opt)
        menu == <<Msg("reviewers_menu", <<>>), Msg("reviewer_prompt", <<>>)>>
    IN  /\ pc = "select"
        /\ read_line("reviewer")
        /\ IF Trim(opt) = <<>>
           THEN /\ usernames' = Usernames(chosen)
                /\ pc' = AfterSelection(chosen)
                /\ IF chosen = <<>>
                   THEN println(menu \o <<Msg("no_reviewers", <<>>)>>)
                   ELSE println(menu)
                /\ UNCHANGED <<reviewers, entered, before>>
           ELSE /\ reads["reviewer"] < MaxReviewerReads
                /\ reviewers' = step.reviewers
                /\ println(menu \o step.report)
                /\ entered' = [i \in 1..Len(entered) |->
                                 IF i \in typed THEN entered[i] + 1 ELSE entered[i]]
                /\ before' = [i \in 1..Len(before) |->
                                IF i \in typed THEN reviewers[i].selected ELSE before[i]]
                /\ UNCHANGED <<pc, usernames>>
        /\ UNCHANGED <<PR, exit_code, creds, draft, proceed_opt, forge>>

GetSelectedReviewers == \E opt \in ReviewerLines : Iteration(opt)

\* a request that names the first selected candidate only
ReviewRequest_FirstOnly(number, names) ==
    Call("request_reviews", base, repo, number, <<names[1]>>, 0, NoCreate)

\* the request_reviews call main issues: pr.number, all usernames, no teams
ReviewRequest(number, names) ==
    Call("request_reviews", base, repo, number, names, 0, NoCreate)

\* pulls(base, repo).request_reviews(pr.number, usernames, [])
RequestReviews ==
    /\ pc = "request"
    /\ calls' = Append(calls, ReviewRequest(pr_resp.pr.number, usernames))
    /\ \E resp \in {"Ok", "Err"} :
        /\ assigness_resp' = resp
        /\ println(<<Msg(IF resp = "Ok" THEN "requested" ELSE "request_failed", <<>>)>>)
    /\ pc' = "link"
    /\ UNCHANGED <<PR, exit_code, creds, draft, proceed_opt, pr_resp, assign_resp,
                   collaborators_resp, selection, reads>>

\* a closing line after which main does not return
PrintPrLink_NeverReturns ==
    /\ pc = "link"
    /\ println(<<Msg("pr_link", get_pr_link(pr_resp.pr))>>)
    /\ UNCHANGED <<pc, exit_code, PR, creds, draft, proceed_opt, forge, selection, reads>>

\* the closing "PR: <link>", after which main returns
PrintPrLink ==
    /\ pc = "link"
    /\ println(<<Msg("pr_link", get_pr_link(pr_resp.pr))>>)
    /\ exit_with_code(0)
    /\ UNCHANGED <<PR, creds, draft, proceed_opt, forge, selection, reads>>

Next ==
    \/ GetUser
    \/ GetToken
    \/ GetRemoteUrl
    \/ GetBase
    \/ GetRepo
    \/ GetCurrentBranch
    \/ GetPrTitle
    \/ GetYtIssue
    \/ GetPrBody
    \/ ReviewPR
    \/ Proceed
    \/ CreatePR
    \/ AssignSelf
    \/ ListMembers
    \/ GetSelectedReviewers
    \/ RequestReviews
    \/ PrintPrLink

Spec == Init /\ [][Next]_vars

\* the operator answers the gate with a line that trims to "y" or "n"
OperatorDecides == Proceed /\ Trim(proceed_opt') \in {<<"y">>, <<"n">>}

\* the operator gives the selection loop an empty line
OperatorFinishes == \E opt \in ReviewerLines : Trim(opt) = <<>> /\ Iteration(opt)

\* main under the assumptions of its termination: the process keeps running
\* and every git command, prompt and forge call returns (a step of Next is
\* taken whenever one can be), and the operator eventually gives each of the
\* two loops the input that ends it
LiveSpec ==
    /\ Spec
    /\ WF_vars(Next)
    /\ WF_vars(OperatorDecides)
    /\ WF_vars(OperatorFinishes)

(***************************************************************************)
(* pr.rs: the PR record and its methods, driven by a holder that builds    *)
(* one record and then calls create and assign_self in any order.          *)
(***************************************************************************)
\* REPO_REGEX of pr.rs  /([\w-]+)(.git)?$   the group is greedy, the suffix
\* optional, and the match must end where the text ends
PR_RepoLens(s, i) ==
    {m \in 1..(RunEnd(s, i + 1, WordDashChars) - i) :
        \/ i + m = Len(s)
        \/ /\ i + m + 4 = Len(s)
           /\ s[i + m + 1] # "\n"
           /\ SubSeq(s, i + m + 2, i + m + 4) = <<"g", "i", "t">>}

PR_RepoMatches(s) == {i \in 1..Len(s) : s[i] = "/" /\ PR_RepoLens(s, i) # {}}

\* get_repo of pr.rs: the capture, or None where the code panics
PR_get_repo(remote_url_) ==
    IF PR_RepoMatches(remote_url_) = {} THEN None
    ELSE LET i == Min(PR_RepoMatches(remote_url_))
         IN  Some(SubSeq(remote_url_, i + 1, i + Max(PR_RepoLens(remote_url_, i))))

InitPR ==
    /\ pc = "build"
    /\ exit_code = -1
    /\ user = <<>> /\ token = <<>>
    /\ remote_url = <<>> /\ base = <<>> /\ repo = <<>> /\ current_branch = <<>>
    /\ pr_title = <<>> /\ yt_issue = <<>> /\ pr_body = <<>> /\ full_pr_body = <<>>
    /\ proceed_opt = <<>>
    /\ pr_resp = [kind |-> "none", pr |-> NoPullRequest]
    /\ assign_resp = "none"
    /\ collaborators_resp = [kind |-> "none", items |-> <<>>]
    /\ assigness_resp = "none"
    /\ reviewers = <<>> /\ usernames = <<>>
    /\ calls = <<>>
    /\ last_printed = Msg("", <<>>)
    /\ reads = [p \in Prompts |-> 0]
    /\ entered = <<>> /\ before = <<>>
    /\ PR = NoPR

\* PR::build: the git commands, the patterns and the three prompts, then the
\* record with link and number None.  Every panic of build comes before its
\* first prompt.
PR_build ==
    /\ pc = "build"
    /\ \E spawned \in BOOLEAN, remote \in RemoteOutputs, branch_out \in BranchOutputs,
          commit \in CommitOutputs, title_line \in TitleLines,
          issue_line \in IssueLines, body_line \in BodyLines :
        LET url == Trim(remote)
            branch == Trim(branch_out)
            title == IF Trim(title_line) = <<>> THEN Trim(commit) ELSE Trim(title_line)
            found == get_yt_issue_from_branch_name(branch)
            issue == IF found.some THEN found.val ELSE Trim(issue_line)
            body == IF Trim(body_line) = <<>> THEN <<"T", "i", "t", "l", "e">>
                    ELSE Trim(body_line)
        IN  IF spawned /\ get_base(url).some /\ PR_get_repo(url).some
            THEN /\ PR' = [branch |-> branch, title |-> title, yt_issue |-> issue,
                           body |-> body,
                           full_body |-> build_full_pr_body(body, issue),
                           base |-> get_base(url).val,
                           repo |-> PR_get_repo(url).val,
                           link |-> None, number |-> NoNumber]
                 /\ reads' = [reads EXCEPT !["title"] = @ + 1,
                                           !["yt_issue"] = IF found.some THEN @ ELSE @ + 1,
                                           !["body"] = @ + 1]
                 /\ println(<<Msg("body_prompt", <<>>)>>)
                 /\ pc' = "built"
                 /\ UNCHANGED exit_code
            ELSE /\ panic
                 /\ UNCHANGED <<PR, reads, last_printed>>
    /\ UNCHANGED <<creds, draft, proceed_opt, forge, selection>>

\* the Ok arm of create keeping the number and dropping the link
Created_NumberOnly(record, github_pr) ==
    [record EXCEPT !.number = SomeNumber(github_pr.number)]

\* the Ok arm of create: self.number and self.link from the forge's answer
Created(record, github_pr) ==
    [record EXCEPT !.number = SomeNumber(github_pr.number),
                   !.link = Some(get_pr_link(github_pr))]

\* PR::create
PR_create ==
    /\ pc = "built"
    /\ Len(calls) < MaxClientCalls
    /\ calls' = Append(calls,
                       Call("create", PR.base, PR.repo, 0, <<>>, 0,
                            [title |-> PR.title, head |-> PR.branch,
                             target |-> TargetBranch, body |-> PR.full_body]))
    /\ \E kind \in {"Ok", "GitHub", "Other"}, n \in PrNumbers :
        LET github_pr == IF kind = "Ok" THEN PullRequest(PR.base, PR.repo, n)
                         ELSE NoPullRequest
        IN  /\ kind # "Ok" => n = 1
            /\ pr_resp' = [kind |-> kind, pr |-> github_pr]
            /\ CASE kind = "Ok" ->
                     /\ PR' = Created(PR, github_pr)
                     /\ println(<<Msg("created", PR'.link.val)>>)
                     /\ UNCHANGED <<pc, exit_code>>
                 [] kind = "GitHub" ->
                     /\ println(<<Msg("create_error", <<"source">>)>>)
                     /\ UNCHANGED <<PR, pc, exit_code>>
                 [] OTHER ->
                     /\ panic
                     /\ UNCHANGED <<PR, last_printed>>
    /\ UNCHANGED <<creds, draft, proceed_opt, assign_resp, collaborators_resp,
                   assigness_resp, selection, reads>>

\* PR::assign_self: self.number.unwrap() panics on a record never created
PR_assign_self ==
    /\ pc = "built"
    /\ Len(calls) < MaxClientCalls
    /\ IF PR.number.some
       THEN \E u \in {v \in UserVars : v.some}, resp \in {"Ok", "Err"} :
               /\ calls' = Append(calls,
                                  Call("add_assignees", PR.base, PR.repo,
                                       PR.number.val, <<u.val>>, 0, NoCreate))
               /\ assign_resp' = resp
               /\ println(<<Msg(IF resp = "Ok" THEN "assigned" ELSE "assign_error", <<>>)>>)
               /\ UNCHANGED <<pc, exit_code>>
       ELSE /\ panic
            /\ UNCHANGED <<calls, assign_resp, last_printed>>
    /\ UNCHANGED <<PR, creds, draft, proceed_opt, pr_resp, collaborators_resp,
                   assigness_resp, selection, reads>>

NextPR ==
    \/ PR_build
    \/ PR_create
    \/ PR_assign_self

SpecPR == InitPR /\ [][NextPR]_vars

(***************************************************************************)
(* Properties.                                                             *)
(***************************************************************************)
CallsOf(op) == {i \in 1..Len(calls) : calls[i].op = op}

Ended == pc \in {"exited", "panicked"}

\* C1: no forge call of any kind (create, add assignee, list members, request
\* reviewers) is issued before the confirmation gate has read a line that
\* trims to exactly "y".
C1_NoCallBeforeYes ==
    calls # <<>> => reads["proceed"] >= 1 /\ Trim(proceed_opt) = <<"y">>

\* a forge call was issued, and the gate had first turned a line down
C1_Witness == calls # <<>> /\ reads["proceed"] = 2

\* C2: whenever the gate reads a line that trims to "n", however many invalid
\* lines came before, the process has ended with exit code 0 and no forge call
\* has been or will be issued.
C2_NoEndsTheRun ==
    Trim(proceed_opt) = <<"n">> =>
        /\ pc = "exited"
        /\ exit_code = 0
        /\ calls = <<>>
        /\ ~ENABLED Next

\* "n" typed after an invalid line
C2_Witness ==
    /\ Trim(proceed_opt) = <<"n">>
    /\ proceed_opt # <<"n", "\n">>
    /\ reads["proceed"] = 2

\* C3: when the create call returns a forge-reported error the process ends
\* with exit code 1, and no later step (add assignee, list members, reviewer
\* selection, request reviewers, the closing PR link) is ever performed.
C3_CreateErrorIsFatal ==
    pr_resp.kind = "GitHub" =>
        /\ pc = "exited"
        /\ exit_code = 1
        /\ Len(calls) = 1 /\ calls[1].op = "create"
        /\ assign_resp = "none"
        /\ collaborators_resp.kind = "none"
        /\ assigness_resp = "none"
        /\ reads["reviewer"] = 0
        /\ last_printed[1] = "create_error"
        /\ ~ENABLED Next

C3_Witness == pr_resp.kind = "GitHub" /\ Ended

\* C4: once the create call has succeeded, whatever the later steps return
\* (self-assignment, member listing, review request: each Ok or Err), the run
\* never ends otherwise than by printing the PR link and leaving with exit
\* code 0.
C4_DegradedRunsSucceed ==
    pr_resp.kind = "Ok" =>
        /\ exit_code \in {-1, 0}
        /\ pc # "panicked"
        /\ Ended =>
            /\ exit_code = 0
            /\ last_printed = Msg("pr_link", get_pr_link(pr_resp.pr))

\* a run that ended after a failed self-assignment and a failed review request
C4_Witness ==
    /\ Ended
    /\ pr_resp.kind = "Ok"
    /\ assign_resp = "Err"
    /\ assigness_resp = "Err"

\* C5: if the member listing fails after a successful create, the selection
\* loop is never entered (no selection line is read) and the request-reviewers
\* call is never issued.
C5_ListErrorSkipsSelection ==
    collaborators_resp.kind = "Err" =>
        /\ pr_resp.kind = "Ok"
        /\ pc \in {"link", "exited"}
        /\ reads["reviewer"] = 0
        /\ reviewers = <<>>
        /\ CallsOf("request_reviews") = {}
        /\ assigness_resp = "none"

C5_Witness == collaborators_resp.kind = "Err" /\ pc = "exited" /\ exit_code = 0

\* the candidates whose flag is set, by position
Flagged == {i \in 1..Len(reviewers) : reviewers[i].selected}

\* the selection loop has been left through the empty line
SelectionDone ==
    collaborators_resp.kind = "Ok" /\ pc \in {"request", "link", "exited"}

\* the members at the positions of S, in the order the forge listed them
RECURSIVE MembersAt(_, _)
MembersAt(S, n) ==
    IF n = 0 THEN <<>>
    ELSE IF n \in S
         THEN Append(MembersAt(S, n - 1), collaborators_resp.items[n])
         ELSE MembersAt(S, n - 1)

\* C6: if the selection loop is left with no candidate selected, the
\* request-reviewers call is not issued; the run reports that there are no
\* reviewers to request and still completes with exit code 0.
C6_EmptySelectionNoRequest ==
    (SelectionDone /\ Flagged = {}) =>
        /\ pc \in {"link", "exited"}
        /\ CallsOf("request_reviews") = {}
        /\ assigness_resp = "none"
        /\ pc = "link" => last_printed = Msg("no_reviewers", <<>>)
        /\ pc = "exited" => exit_code = 0

\* nobody selected out of three candidates, one of them selected and deselected
C6_Witness ==
    /\ SelectionDone /\ Flagged = {}
    /\ Len(reviewers) = 3
    /\ \E i \in 1..3 : entered[i] = 2
    /\ pc = "exited"

\* C7: if the selection loop is left with at least one candidate selected,
\* exactly one request-reviewers call is issued in the run; it names exactly
\* the usernames of all the selected candidates, and its PR number is the one
\* the successful create call returned.
C7_OneRequestForAllSelected ==
    /\ Cardinality(CallsOf("request_reviews")) <= 1
    /\ (SelectionDone /\ Flagged # {} /\ pc # "request") =>
        \E i \in CallsOf("request_reviews") :
            /\ calls[i].users = MembersAt(Flagged, Len(reviewers))
            /\ calls[i].number = pr_resp.pr.number
            /\ calls[i].owner = base /\ calls[i].repo = repo
            /\ pr_resp.kind = "Ok"

\* two candidates requested on pull request number 2
C7_Witness ==
    /\ SelectionDone /\ Cardinality(Flagged) = 2
    /\ pr_resp.pr.number = 2
    /\ pc = "exited"

\* C8: for any sequence of selection lines ended by an empty line, the
\* reviewers dispatched are exactly the usernames of the candidates whose
\* ordinal was entered an odd number of times, in retrieval order; entering
\* 0, 2, 0 and the empty line dispatches exactly the username at ordinal 2.
OddEntered == {i \in 1..Len(entered) : entered[i] % 2 = 1}

C8_OddEntriesAreDispatched ==
    SelectionDone =>
        /\ usernames = MembersAt(OddEntered, Len(entered))
        /\ \A i \in CallsOf("request_reviews") : calls[i].users = usernames
        /\ pc \in {"link", "exited"} =>
               (CallsOf("request_reviews") = {} <=> OddEntered = {})

\* 0 entered twice, 2 once: the member at ordinal 2 alone is requested
C8_Witness ==
    /\ SelectionDone
    /\ entered = <<2, 0, 1>>
    /\ \E i \in CallsOf("request_reviews") : calls[i].users = <<Login(2)>>

\* C9: in the selection loop, each entry of an existing ordinal changes the
\* selected flag of that one candidate and of no other, and the second of two
\* entries of the same ordinal (whatever was entered for other ordinals in
\* between) restores the flag to its value before the first.
C9_ToggleIsInvolution ==
    [][(pc = "select" /\ pc' = "select") =>
          \A i \in 1..Len(reviewers) :
              entered'[i] = entered[i] + 1 =>
                  /\ reviewers'[i].selected = ~reviewers[i].selected
                  /\ \A j \in 1..Len(reviewers) : j # i => reviewers'[j] = reviewers[j]
                  /\ Len(reviewers') = Len(reviewers)
                  /\ entered[i] >= 1 => reviewers'[i].selected = before[i]]_vars

\* an ordinal entered twice around an entry of another one
C9_Witness ==
    /\ pc = "select"
    /\ \E i, j \in 1..Len(reviewers) :
        /\ i # j
        /\ entered[i] = 2 /\ ~reviewers[i].selected
        /\ entered[j] = 1 /\ reviewers[j].selected /\ before[j] = FALSE
        /\ before[i] = TRUE

\* a decimal integer: an optional sign, then digits
IsInteger(s) ==
    LET ds == IF Len(s) > 0 /\ Head(s) \in {"+", "-"} THEN Tail(s) ELSE s
    IN  Len(ds) > 0 /\ \A i \in 1..Len(ds) : ds[i] \in DigitChars

\* an integer parse::<usize> takes: no minus sign, and no more than usize::MAX
IsUsize(s) == IsInteger(s) /\ Head(s) # "-" /\ ~Overflows(IF Head(s) = "+" THEN Tail(s) ELSE s)

\* the iteration on line `opt` leaves the flags alone, stays in the loop and
\* ends on the report `tag`
RejectedAs(tag) ==
    /\ reviewers' = reviewers
    /\ pc' = "select"
    /\ last_printed' = Msg(tag, <<>>)

\* C10, as claimed: every non-empty line that is not an existing ordinal
\* leaves every flag unchanged and keeps the loop running; it is reported as
\* "not found" when it parses as an integer (negative integers and integers
\* beyond the list included) and as "invalid option" only when it does not.
C10_AsClaimed ==
    [][\A opt \in ReviewerLines :
          (Iteration(opt) /\ Trim(opt) # <<>> /\ Typed(reviewers, opt) = {}) =>
              IF IsInteger(Trim(opt))
              THEN RejectedAs("not_found")
              ELSE RejectedAs("invalid_option")]_vars

\* C10, amended: every non-empty line that is not an existing ordinal leaves
\* every flag unchanged and keeps the loop running; it is reported as "not
\* found" when it parses as an unsigned integer that fits usize, and as
\* "invalid option" otherwise: when it is no integer, a negative integer, or
\* an integer above usize::MAX.
C10_Amended ==
    [][\A opt \in ReviewerLines :
          (Iteration(opt) /\ Trim(opt) # <<>> /\ Typed(reviewers, opt) = {}) =>
              IF IsUsize(Trim(opt))
              THEN RejectedAs("not_found")
              ELSE RejectedAs("invalid_option")]_vars

\* a line was turned down as invalid after a candidate had been selected, and
\* the candidate is still selected
C10_Witness ==
    /\ pc = "select"
    /\ last_printed = Msg("invalid_option", <<>>)
    /\ Flagged # {}
    /\ reads["reviewer"] >= 2

\* a remote URL that the base pattern or the repo pattern cannot match
Malformed(url) == ~get_base(url).some \/ ~get_repo(url).some

NoPromptRead == \A p \in Prompts : reads[p] = 0

\* C11: a run that holds a malformed remote URL ends, at the step that finds
\* the pattern unmatched, with exit code 1, no prompt read and no forge call.
C11_AsClaimed ==
    [][(pc \in {"base", "repo"} /\ Malformed(remote_url) /\ pc' \notin {"base", "repo"})
          => /\ pc' = "exited"
             /\ exit_code' = 1
             /\ NoPromptRead'
             /\ calls' = <<>>]_vars

\* the run has looked a credential up and found it unset
CredentialMissing ==
    \/ pc # "user" /\ user = <<>>
    \/ pc \notin {"user", "token"} /\ token = <<>>

\* C12: once a credential is found missing the process has ended with exit
\* code 1, and it has run no git command, read no prompt and made no forge call.
C12_MissingCredentialExits ==
    CredentialMissing =>
        /\ pc = "exited"
        /\ exit_code = 1
        /\ draft = <<<<>>, <<>>, <<>>, <<>>, <<>>, <<>>, <<>>, <<>>>>
        /\ NoPromptRead
        /\ calls = <<>>
        /\ last_printed \in {Msg("no_user", <<>>), Msg("token_hint", <<>>)}

C12_Witness == pc = "exited" /\ user # <<>> /\ token = <<>>

\* the remote URLs the claim speaks of: prefix:org/repo and prefix/org/repo,
\* each with and without the .git suffix
Org == <<"o", "r", "g">>

RepoName == <<"r", "e", "p", "o">>

SupportedForms ==
    {prefix \o Org \o <<"/">> \o RepoName \o suffix :
        prefix \in {<<"g", "i", "t", "@", "h", ":">>,
                    <<"h", "t", "t", "p", "s", ":", "/", "/", "h", "/">>},
        suffix \in {<<>>, <<".", "g", "i", "t">>}}

\* C13: for every remote URL of a supported form the parser succeeds with
\* base = org and repo = repo, and the run that read it carries those on.
C13_AsClaimed ==
    (pc \notin {"user", "token", "remote_url"} /\ remote_url \in SupportedForms) =>
        /\ get_base(remote_url) = Some(Org)
        /\ get_repo(remote_url) = Some(RepoName)
        /\ pc \notin {"base", "repo"} => base = Org /\ repo = RepoName

\* the fields of a PR record other than number and link
OtherFields(record) ==
    <<record.branch, record.title, record.yt_issue, record.body,
      record.full_body, record.base, record.repo>>

\* this step is a call of PR::create that the forge answered with `kind`
CreateAnswered(kind) ==
    /\ Len(calls') = Len(calls) + 1
    /\ calls'[Len(calls')].op = "create"
    /\ pr_resp'.kind = kind

\* C14: number and link of a PR record are set together or not at all; they
\* are unset when build returns and change only in a create that succeeds; a
\* failed create leaves the record as it was; create and assign_self change no
\* other field.
C14_NumberAndLinkTogether ==
    /\ [](PR.number.some <=> PR.link.some)
    /\ [](pc = "build" => ~PR.number.some /\ ~PR.link.some)
    /\ [][/\ pc = "build" => ~PR'.number.some /\ ~PR'.link.some
          /\ (PR'.number # PR.number \/ PR'.link # PR.link) => CreateAnswered("Ok")
          /\ (CreateAnswered("GitHub") \/ CreateAnswered("Other")) => PR' = PR
          /\ pc = "built" => OtherFields(PR') = OtherFields(PR)]_vars

C14_Witness ==
    /\ PR.number.some /\ PR.link.some
    /\ pr_resp.kind = "GitHub"
    /\ CallsOf("add_assignees") # {}

\* the two answers the gate takes
Decisive(line) == Trim(line) \in {<<"y">>, <<"n">>}

\* C15: a step of the gate leaves the loop only on a line that trims to
\* exactly "y" or "n"; on any other line it prints the hint and stays at the
\* prompt with the draft, the exit code and the forge calls as they were.
C15_GateTurnsDownOtherInput ==
    [][pc = "proceed" =>
          /\ reads'["proceed"] = reads["proceed"] + 1
          /\ pc' # "proceed" => Decisive(proceed_opt')
          /\ ~Decisive(proceed_opt') =>
                /\ pc' = "proceed"
                /\ exit_code' = -1
                /\ draft' = draft
                /\ calls' = calls
                /\ last_printed' = Msg("proceed_hint", <<>>)]_vars

C15_Witness ==
    /\ pc = "proceed"
    /\ reads["proceed"] = MaxProceedReads
    /\ proceed_opt = <<"Y", "\n">>

\* the forge calls of a full run, in the order main issues them
CallOrder == <<"create", "add_assignees", "list_members", "request_reviews">>

\* C16: the calls issued so far are an initial part of create, add-assignee,
\* list-members, request-reviewers; once a create has succeeded and main is
\* past the listing, add-assignee and list-members have both been issued,
\* whatever the assignment answered; the selection loop reads a line only
\* after a successful listing and before the request-reviewers call.
C16_CallsInFixedOrder ==
    /\ [](/\ Len(calls) <= Len(CallOrder)
          /\ \A i \in 1..Len(calls) : calls[i].op = CallOrder[i]
          /\ (pr_resp.kind = "Ok" /\ pc \notin {"assign", "list"}) =>
                /\ Len(calls) >= 3
                /\ assign_resp \in {"Ok", "Err"}
          /\ reads["reviewer"] > 0 => collaborators_resp.kind = "Ok")
    /\ [][reads'["reviewer"] # reads["reviewer"] =>
             /\ collaborators_resp.kind = "Ok"
             /\ Len(calls) = 3
             /\ calls' = calls]_vars

C16_Witness ==
    /\ assign_resp = "Err"
    /\ Len(calls) = Len(CallOrder)
    /\ reads["reviewer"] > 1
    /\ pc = "exited"

\* C17: when the create call fails with an error that is not a forge-reported
\* one, the process has died at once: create is the only call, nothing was
\* printed after the call went out (no link), the exit code is not 0 and no
\* further step can be taken.
C17_UnexpectedCreateErrorAborts ==
    pr_resp.kind = "Other" =>
        /\ pc = "panicked"
        /\ exit_code \notin {-1, 0}
        /\ Len(calls) = 1 /\ calls[1].op = "create"
        /\ assign_resp = "none"
        /\ collaborators_resp.kind = "none"
        /\ assigness_resp = "none"
        /\ last_printed = Msg("creating", <<>>)
        /\ ~ENABLED Next

C17_Witness == pr_resp.kind = "Other" /\ pc = "panicked" /\ exit_code = 101

\* the ordinals of a candidate list, in list order
Ordinals(revs) == [i \in 1..Len(revs) |-> revs[i].index]

\* C18: in a selection session the candidates are the listed members in the
\* order retrieved, with ordinals 0..n-1, pairwise distinct; before the first
\* line is read none is selected; a line read by the loop changes no ordinal,
\* no username and neither the length nor the order of the list.
C18_OrdinalsAreStable ==
    /\ [](collaborators_resp.kind = "Ok" =>
            /\ Usernames(reviewers) = collaborators_resp.items
            /\ Ordinals(reviewers) = [i \in 1..Len(collaborators_resp.items) |-> i - 1]
            /\ \A i, j \in 1..Len(reviewers) :
                  i # j => reviewers[i].index # reviewers[j].index
            /\ (pc = "select" /\ reads["reviewer"] = 0) => Flagged = {})
    /\ [][pc = "select" =>
             /\ Usernames(reviewers') = Usernames(reviewers)
             /\ Ordinals(reviewers') = Ordinals(reviewers)]_vars

C18_Witness ==
    /\ pc = "select"
    /\ Len(reviewers) = MaxMembers
    /\ reads["reviewer"] >= 2
    /\ Flagged # {}
    /\ last_printed[1] = "invalid_option"

\* the issue key a branch name of the form <word>/<WORD>-<digits> carries
IssueKeyOf(branch) ==
    IF branch = <<"f", "e", "a", "t", "/", "P", "R", "O", "J", "-", "4", "2">>
    THEN Some(<<"P", "R", "O", "J", "-", "4", "2">>)
    ELSE None

\* the linked issue has been settled: the title was read and main has moved on
IssueSettled == reads["title"] = 1 /\ pc # "yt_issue"

\* C19: the fallback prompt is read once when the branch name carries no
\* issue key and never when it does; with a key the linked issue is that key,
\* without one it is the reply, trimmed, and an empty reply is taken as it is:
\* the step that reads it moves on to the body.
C19_IssueFromBranchOrOnePrompt ==
    /\ [](/\ ~IssueSettled => reads["yt_issue"] = 0 /\ yt_issue = <<>>
          /\ IssueSettled =>
                IF IssueKeyOf(current_branch).some
                THEN reads["yt_issue"] = 0 /\ yt_issue = IssueKeyOf(current_branch).val
                ELSE reads["yt_issue"] = 1 /\ yt_issue \in {Trim(l) : l \in IssueLines})
    /\ [][pc = "yt_issue" =>
             /\ pc' = "pr_body"
             /\ reads'["yt_issue"] = 1 =>
                   \E l \in IssueLines :
                       /\ yt_issue' = Trim(l)
                       /\ \A i \in 1..Len(yt_issue') :
                             ~IsWhitespace(yt_issue'[i]) \/ (1 < i /\ i < Len(yt_issue'))]_vars

C19_Witness ==
    /\ IssueSettled
    /\ ~IssueKeyOf(current_branch).some
    /\ reads["yt_issue"] = 1
    /\ yt_issue = <<>>
    /\ pc = "exited" /\ exit_code = 0 /\ calls # <<>>

\* C20: if every call returns and the operator eventually answers the gate
\* with "y" or "n" and the selection loop with an empty line, the run ends;
\* and the two loops are left on no other input: a line the gate turns down
\* and a line that toggles a candidate or is rejected by the selection loop
\* both leave main in the loop it was in.
C20_RunsTerminate ==
    /\ <>Ended
    /\ [][/\ (pc = "proceed" /\ Trim(proceed_opt') \notin {<<"y">>, <<"n">>})
                => pc' = "proceed"
          /\ (pc = "select" /\ (\/ reviewers' # reviewers
                                \/ last_printed'[1] \in {"not_found", "invalid_option"}))
                => pc' = "select"]_vars

C20_Witness ==
    /\ pc = "exited" /\ exit_code = 0
    /\ reads["proceed"] = MaxProceedReads + 1
    /\ reads["reviewer"] = MaxReviewerReads + 1
    /\ assigness_resp # "none"

====
